---- MODULE Spec2Model ----
(***************************************************************************)
(* Model of contracts/test/lifecycle/analyze_sale_scenarios.py:            *)
(* BondingCurveSaleAnalyzer (run_forge_test, parse_test_output,            *)
(* run_scenario_tests, create_summary_table, create_purchase_dataframe,    *)
(* plot_tokens_per_eth, save_results) and main.                            *)
(*                                                                         *)
(* The harness output is a sequence of lines.  Each line is rendered to a  *)
(* sequence of tokens (literal words, ":", " ", "\n", single digits) and   *)
(* the regular expressions of parse_test_output are executed on the token  *)
(* sequence, so that the parser sees text, not lines.                      *)
(***************************************************************************)
EXTENDS Integers, Sequences, FiniteSets, TLC

VARIABLES
    output,       \* lines of the harness output last produced (stdout)
    parsed,       \* value last returned by parse_test_output
    pc,           \* position of the run
    scenarios,    \* the batch given to run_scenario_tests
    runs,         \* one entry per harness invocation so far: name, returncode, stdout
    results,      \* the list run_scenario_tests accumulates
    summary_df,   \* rows of the Summary Table
    purchase_df,  \* rows of the Purchase Table
    saved         \* what save_results did

vars == <<output, parsed, pc, scenarios, runs, results, summary_df, purchase_df, saved>>

----------------------------------------------------------------------------
(* Bounds of the model *)

MaxLines == 5
MaxElems == 4
MaxScenarios == 2

----------------------------------------------------------------------------
(* Text: lines and their rendering to tokens *)

OPEN_MARK == "------- TOKEN SALE SUMMARY -------"
CLOSE_MARK == "------- BONDING CURVE INTEGRITY"

DigitSeq == <<"0", "1", "2", "3", "4", "5", "6", "7", "8", "9">>
Digits == {DigitSeq[k] : k \in 1..10}
DigitVal(d) == (CHOOSE k \in 1..10 : DigitSeq[k] = d) - 1

IsDigit(t) == t \in Digits
IsSpace(t) == t \in {" ", "\n"}

RECURSIVE DigitsOf(_)
\* decimal rendering of a natural number, as the harness logs it
DigitsOf(n) ==
    IF n < 10 THEN <<DigitSeq[n + 1]>>
    ELSE DigitsOf(n \div 10) \o <<DigitSeq[(n % 10) + 1]>>

RECURSIVE Zeros(_)
Zeros(k) == IF k = 0 THEN <<>> ELSE <<"0">> \o Zeros(k - 1)

MarkerLine(m) == [kind |-> "marker", label |-> m, n |-> 0, pad |-> 0]
TextLine(w) == [kind |-> "text", label |-> w, n |-> 0, pad |-> 0]
IntLine(l, n) == [kind |-> "int", label |-> l, n |-> n, pad |-> 0]
PaddedIntLine(l, n, p) == [kind |-> "int", label |-> l, n |-> n, pad |-> p]
WordLine(l) == [kind |-> "word", label |-> l, n |-> 0, pad |-> 0]
BlankLine == [kind |-> "blank", label |-> "", n |-> 0, pad |-> 0]

OpenLine == MarkerLine(OPEN_MARK)
CloseLine == MarkerLine(CLOSE_MARK)

\* one line of console output, indented as forge prints it, without its newline
LineTokens(ln) ==
    CASE ln.kind = "marker" -> <<ln.label>>
      [] ln.kind = "text" -> <<" ", ln.label>>
      [] ln.kind = "int" -> <<" ", ln.label, ":", " ">> \o Zeros(ln.pad) \o DigitsOf(ln.n)
      [] ln.kind = "word" -> <<" ", ln.label, ":", " ", "n/a">>
      [] OTHER -> <<>>

RECURSIVE Render(_)
\* result.stdout: the lines, each ended by a newline
Render(lines) ==
    IF lines = <<>> THEN <<>>
    ELSE LineTokens(Head(lines)) \o <<"\n">> \o Render(Tail(lines))

----------------------------------------------------------------------------
(* The regular expressions of parse_test_output, on tokens *)

None == [tag |-> "None"]

RECURSIVE FindFrom(_, _, _)
\* least position >= p of token t in s, 0 when there is none
FindFrom(s, p, t) ==
    IF p > Len(s) THEN 0
    ELSE IF s[p] = t THEN p
    ELSE FindFrom(s, p + 1, t)

RECURSIVE SkipSpace(_, _)
\* \s* : greedy, from p
SkipSpace(s, p) ==
    IF p <= Len(s) /\ IsSpace(s[p]) THEN SkipSpace(s, p + 1) ELSE p

RECURSIVE SkipDigits(_, _)
\* \d* : greedy, from p
SkipDigits(s, p) ==
    IF p <= Len(s) /\ IsDigit(s[p]) THEN SkipDigits(s, p + 1) ELSE p

RECURSIVE IntOf(_)
\* int(match.group(k)) on a run of digits
IntOf(ds) ==
    IF ds = <<>> THEN 0
    ELSE 10 * IntOf(SubSeq(ds, 1, Len(ds) - 1)) + DigitVal(ds[Len(ds)])

RECURSIVE LStrip(_)
LStrip(s) == IF s # <<>> /\ IsSpace(Head(s)) THEN LStrip(Tail(s)) ELSE s

RECURSIVE RStrip(_)
RStrip(s) ==
    IF s # <<>> /\ IsSpace(s[Len(s)]) THEN RStrip(SubSeq(s, 1, Len(s) - 1)) ELSE s

\* str.strip()
Strip(s) == RStrip(LStrip(s))

\* variant: the closing marker is not required, the block runs to the end
SummarySearchOpenOnly(out) ==
    LET o == FindFrom(out, 1, OPEN_MARK)
    IN  IF o = 0 THEN None
        ELSE [tag |-> "match", group1 |-> SubSeq(out, SkipSpace(out, o + 1), Len(out))]

\* re.search(OPEN \s* (.*?) CLOSE, output, DOTALL): group(1), or None
SummarySearch(out) ==
    LET o == FindFrom(out, 1, OPEN_MARK)
    IN  IF o = 0 THEN None
        ELSE LET b == SkipSpace(out, o + 1)
                 c == FindFrom(out, b, CLOSE_MARK)
             IN  IF c = 0 THEN None
                 ELSE [tag |-> "match", group1 |-> SubSeq(out, b, c - 1)]

EmptyMetrics == [k \in {} |-> 0]

\* metrics[key] = value
PutMetric(m, key, value) ==
    [k \in (DOMAIN m) \cup {key} |-> IF k = key THEN value ELSE m[k]]

RECURSIVE ScanMetrics(_, _, _)
\* for match in re.finditer(r'([^:]+):\s*(\d+)', summary_text), from position p
ScanMetrics(st, p, m) ==
    IF p > Len(st) THEN m
    ELSE IF st[p] = ":" THEN ScanMetrics(st, p + 1, m)
    ELSE LET c == FindFrom(st, p, ":")
         IN  IF c = 0 THEN m
             ELSE LET d == SkipSpace(st, c + 1)
                      e == SkipDigits(st, d)
                  IN  IF e = d
                      THEN ScanMetrics(st, c + 1, m)
                      ELSE ScanMetrics(st, e,
                               PutMetric(m, Strip(SubSeq(st, p, c - 1)),
                                         IntOf(SubSeq(st, d, e - 1))))

ExtractMetrics(summary_text) == ScanMetrics(summary_text, 1, EmptyMetrics)

\* `<literal>:\s*(\d+)` at position p: [ok, val, end]
MatchField(s, p, literal) ==
    IF p + 1 <= Len(s) /\ s[p] = literal /\ s[p + 1] = ":"
    THEN LET d == SkipSpace(s, p + 2)
             e == SkipDigits(s, d)
         IN  IF e = d THEN [ok |-> FALSE, val |-> 0, end |-> p]
             ELSE [ok |-> TRUE, val |-> IntOf(SubSeq(s, d, e - 1)), end |-> e]
    ELSE [ok |-> FALSE, val |-> 0, end |-> p]

PurchaseLabels == <<"Purchase #", "ETH spent", "Tokens received", "Current price">>

\* variant: the last field is optional and defaults to zero
MatchPurchasePartial(s, p) ==
    LET f1 == MatchField(s, p, PurchaseLabels[1])
        f2 == MatchField(s, SkipSpace(s, f1.end), PurchaseLabels[2])
        f3 == MatchField(s, SkipSpace(s, f2.end), PurchaseLabels[3])
        f4 == MatchField(s, SkipSpace(s, f3.end), PurchaseLabels[4])
    IN  IF f1.ok /\ f2.ok /\ f3.ok
        THEN [ok |-> TRUE, end |-> IF f4.ok THEN f4.end ELSE f3.end,
              rec |-> [purchase_num |-> f1.val, eth_spent |-> f2.val,
                       tokens_received |-> f3.val,
                       current_price |-> IF f4.ok THEN f4.val ELSE 0]]
        ELSE [ok |-> FALSE, end |-> p,
              rec |-> [purchase_num |-> 0, eth_spent |-> 0,
                       tokens_received |-> 0, current_price |-> 0]]

\* the purchase pattern anchored at position p: [ok, rec, end]
MatchPurchase(s, p) ==
    LET f1 == MatchField(s, p, PurchaseLabels[1])
        f2 == MatchField(s, SkipSpace(s, f1.end), PurchaseLabels[2])
        f3 == MatchField(s, SkipSpace(s, f2.end), PurchaseLabels[3])
        f4 == MatchField(s, SkipSpace(s, f3.end), PurchaseLabels[4])
    IN  IF f1.ok /\ f2.ok /\ f3.ok /\ f4.ok
        THEN [ok |-> TRUE, end |-> f4.end,
              rec |-> [purchase_num |-> f1.val, eth_spent |-> f2.val,
                       tokens_received |-> f3.val, current_price |-> f4.val]]
        ELSE [ok |-> FALSE, end |-> p,
              rec |-> [purchase_num |-> 0, eth_spent |-> 0,
                       tokens_received |-> 0, current_price |-> 0]]

RECURSIVE FindAllPurchases(_, _, _)
\* re.findall(purchase pattern, output): non-overlapping, left to right
FindAllPurchases(s, p, acc) ==
    IF p > Len(s) THEN acc
    ELSE LET m == MatchPurchase(s, p)
         IN  IF m.ok THEN FindAllPurchases(s, m.end, Append(acc, m.rec))
             ELSE FindAllPurchases(s, p + 1, acc)

\* parse_test_output(output)
ParseTestOutput(out) ==
    LET summary_match == SummarySearch(out)
    IN  IF summary_match = None THEN None
        ELSE [tag |-> "data",
              summary |-> ExtractMetrics(summary_match.group1),
              purchases |-> FindAllPurchases(out, 1, <<>>)]

----------------------------------------------------------------------------
(* What the text says, read line by line (the reference the parser is held to) *)

RECURSIVE Flatten(_)
\* the lines of an output emitted in chunks
Flatten(chunks) ==
    IF chunks = <<>> THEN <<>> ELSE Head(chunks) \o Flatten(Tail(chunks))

RECURSIVE LineFrom(_, _, _)
\* least index >= i of line ln, 0 when there is none
LineFrom(lines, i, ln) ==
    IF i > Len(lines) THEN 0
    ELSE IF lines[i] = ln THEN i
    ELSE LineFrom(lines, i + 1, ln)

RefOpen(lines) == LineFrom(lines, 1, OpenLine)
RefClose(lines) ==
    IF RefOpen(lines) = 0 THEN 0 ELSE LineFrom(lines, RefOpen(lines) + 1, CloseLine)

\* the summary block is there: an opening marker line and a closing one after it
RefLocated(lines) == RefClose(lines) # 0

\* the lines strictly between the two markers
RefBlock(lines) == SubSeq(lines, RefOpen(lines) + 1, RefClose(lines) - 1)

RECURSIVE RefMetrics(_, _)
\* label -> integer over the `<label>: <integer>` lines, later lines overwriting
RefMetrics(block, m) ==
    IF block = <<>> THEN m
    ELSE LET ln == Head(block)
         IN  RefMetrics(Tail(block),
                 IF ln.kind = "int"
                 THEN [k \in (DOMAIN m) \cup {<<ln.label>>} |->
                          IF k = <<ln.label>> THEN ln.n ELSE m[k]]
                 ELSE m)

RefSummary(lines) == RefMetrics(RefBlock(lines), [k \in {} |-> 0])

IsBlank(ln) == ln.kind = "blank"
NotBlank(ln) == ~IsBlank(ln)

IsBlockAt(ls, i) ==
    /\ i + 3 <= Len(ls)
    /\ \A k \in 0..3 : ls[i + k].kind = "int" /\ ls[i + k].label = PurchaseLabels[k + 1]

RECURSIVE RefBlocks(_, _, _)
\* the complete four-field blocks among the non-blank lines ls, from line i on
RefBlocks(ls, i, acc) ==
    IF i > Len(ls) THEN acc
    ELSE IF IsBlockAt(ls, i)
         THEN RefBlocks(ls, i + 4,
                  Append(acc, [purchase_num |-> ls[i].n, eth_spent |-> ls[i + 1].n,
                               tokens_received |-> ls[i + 2].n,
                               current_price |-> ls[i + 3].n]))
         ELSE RefBlocks(ls, i + 1, acc)

RefPurchases(lines) == RefBlocks(SelectSeq(lines, NotBlank), 1, <<>>)

----------------------------------------------------------------------------
(* The harness, as far as the parser is concerned: it prints lines *)

NoDf == <<>>
NotSaved == [called |-> FALSE, attempted |-> {}, written |-> {},
             reported |-> FALSE, raised |-> FALSE, plain_text |-> FALSE]

\* lines the harness may print around and inside a summary section
SummaryLines ==
    { OpenLine, CloseLine,
      IntLine("Starting price", 7), IntLine("Starting price", 40),
      PaddedIntLine("Purchase #", 9, 1),
      WordLine("Note"), TextLine("x") }

PurchaseBlock(num, eth, tok, price) ==
    << IntLine(PurchaseLabels[1], num), IntLine(PurchaseLabels[2], eth),
       IntLine(PurchaseLabels[3], tok), IntLine(PurchaseLabels[4], price) >>

\* pieces the harness may print: whole sections, or single lines of them
PurchaseElems ==
    { <<OpenLine, IntLine("Final price", 3), CloseLine>>,
      <<OpenLine>>, <<CloseLine>>,
      PurchaseBlock(1, 20, 5, 100), PurchaseBlock(2, 0, 13, 7),
      <<IntLine(PurchaseLabels[1], 3)>>, <<IntLine(PurchaseLabels[2], 8)>>,
      <<PaddedIntLine(PurchaseLabels[3], 6, 2)>>, <<IntLine(PurchaseLabels[4], 4)>>,
      <<WordLine(PurchaseLabels[2])>>, <<BlankLine>> }

InitText ==
    /\ output = <<>>
    /\ parsed = None
    /\ pc = "emit"
    /\ scenarios = <<>>
    /\ runs = <<>>
    /\ results = <<>>
    /\ summary_df = NoDf
    /\ purchase_df = NoDf
    /\ saved = NotSaved

pipeline == <<scenarios, runs, results, summary_df, purchase_df, saved>>

EmitSummaryLine ==
    /\ pc = "emit"
    /\ Len(output) < MaxLines
    /\ \E ln \in SummaryLines : output' = Append(output, <<ln>>)
    /\ UNCHANGED <<parsed, pc, pipeline>>

EmitPurchaseElem ==
    /\ pc = "emit"
    /\ Len(output) < MaxElems
    /\ \E e \in PurchaseElems : output' = Append(output, e)
    /\ UNCHANGED <<parsed, pc, pipeline>>

\* data = self.parse_test_output(output)
Parse ==
    /\ pc = "emit"
    /\ parsed' = ParseTestOutput(Render(Flatten(output)))
    /\ pc' = "parsed"
    /\ UNCHANGED <<output, pipeline>>

NextSummary == EmitSummaryLine \/ Parse
NextPurchase == EmitPurchaseElem \/ Parse

SpecSummary == InitText /\ [][NextSummary]_vars
SpecPurchase == InitText /\ [][NextPurchase]_vars

Lines == Flatten(output)

----------------------------------------------------------------------------
(* C2: when the text holds a summary block, the purchase list is exactly the
   complete four-field blocks (Purchase #, ETH spent, Tokens received, Current
   price, in that order, blank lines between them allowed) in the order they
   appear; a block with a field missing, out of order or with another line in
   between gives no record, whole or partial. *)
C2_PurchasesAreCompleteBlocks ==
    (pc = "parsed" /\ RefLocated(Lines)) =>
        /\ parsed # None
        /\ parsed.purchases = RefPurchases(Lines)

\* two complete blocks, second-numbered first, and a stray purchase line as well
C2_Witness ==
    /\ pc = "parsed"
    /\ RefLocated(Lines)
    /\ parsed # None
    /\ Len(parsed.purchases) = 2
    /\ parsed.purchases[1].purchase_num = 2
    /\ parsed.purchases[2].purchase_num = 1
    /\ Len(Lines) > 11

(* C3: the summary mapping has exactly the labels of the `<label>: <integer>`
   lines between the markers, each with its integer, the last occurrence of a
   label winning; a line whose value is not an integer adds no key and leaves
   the keys of the other lines alone.  Stated for blocks made of `<label>:
   <value>` lines only. *)
C3_SummaryKeysAreLineLabels ==
    (/\ pc = "parsed"
     /\ RefLocated(Lines)
     /\ \A i \in 1..Len(RefBlock(Lines)) : RefBlock(Lines)[i].kind \in {"int", "word"}) =>
        /\ parsed # None
        /\ parsed.summary = RefSummary(Lines)

(* C4: parse_test_output returns nothing exactly when the summary block cannot
   be located; a located block always gives a result carrying the summary and
   the purchase list, which is empty when the text has no complete purchase
   block. *)
C4_NoneIffNoSummaryBlock ==
    pc = "parsed" =>
        /\ (parsed = None) <=> ~RefLocated(Lines)
        /\ parsed # None =>
              /\ {"summary", "purchases"} \subseteq DOMAIN parsed
              /\ (RefPurchases(Lines) = <<>>) => (parsed.purchases = <<>>)

\* a located summary next to purchase lines that form no complete block
C4_Witness ==
    /\ pc = "parsed"
    /\ RefLocated(Lines)
    /\ \E i \in 1..Len(Lines) : Lines[i].label = PurchaseLabels[1]
    /\ parsed # None
    /\ parsed.purchases = <<>>

----------------------------------------------------------------------------
(* Tables: cells, rows and the unit conversions *)

\* a number in a table cell: num / 10^exp (exp = 0 for an integer as parsed)
IntCell(x) == [num |-> x, exp |-> 0]
StrCell(x) == [str |-> x]

\* variant: dict.get(key), the default dropped (None, shown as -1)
GetNoDefault(m, key, default) == IF key \in DOMAIN m THEN m[key] ELSE -1

\* dict.get(key, default)
Get(m, key, default) == IF key \in DOMAIN m THEN m[key] ELSE default

\* column of the record built at lines 128-136, and the summary label it reads
SummaryFields ==
    << <<"Initial Price (wei)", "Starting price">>,
       <<"Final Price (wei)", "Final price">>,
       <<"Price Increase (%)", "Price increase (%)">>,
       <<"Tokens Sold", "Tokens sold in sale">>,
       <<"ETH Raised", "Total ETH raised">>,
       <<"Avg Price Per Token (wei)", "Effective avg price per token">> >>

RecordColumns == {"Scenario"} \cup {SummaryFields[k][1] : k \in 1..Len(SummaryFields)}

LabelOf(col) == (CHOOSE k \in 1..Len(SummaryFields) : SummaryFields[k][1] = col)

\* record = {'Scenario': ..., 'Initial Price (wei)': result['summary'].get(..., 0), ...}
SummaryRecord(result) ==
    [c \in RecordColumns |->
        IF c = "Scenario" THEN StrCell(result.scenario_name)
        ELSE IntCell(Get(result.summary, <<SummaryFields[LabelOf(c)][2]>>, 0))]

\* lambda x: x / 1e<k> if x else 0
ScaleOrZero(cell, k) == IF cell.num # 0 THEN [num |-> cell.num, exp |-> k] ELSE IntCell(0)

\* lambda x: x / 1e<k>
Scale(x, k) == [num |-> x, exp |-> k]

WEI_EXP == 18
MILLION_EXP == 6

\* variant: 'Tokens Sold' is converted in place as well
ConvertSummaryUnitsInPlace(rec) ==
    [c \in (DOMAIN rec) \cup
           {"Initial Price (ETH)", "Final Price (ETH)", "Tokens Sold (millions)"} |->
        CASE c = "Initial Price (ETH)" -> ScaleOrZero(rec["Initial Price (wei)"], WEI_EXP)
          [] c = "Final Price (ETH)" -> ScaleOrZero(rec["Final Price (wei)"], WEI_EXP)
          [] c = "ETH Raised" -> ScaleOrZero(rec["ETH Raised"], WEI_EXP)
          [] c \in {"Tokens Sold", "Tokens Sold (millions)"} ->
                 ScaleOrZero(rec["Tokens Sold"], MILLION_EXP)
          [] OTHER -> rec[c]]

\* lines 142-145: three new columns, and 'ETH Raised' assigned to itself
ConvertSummaryUnits(rec) ==
    [c \in (DOMAIN rec) \cup
           {"Initial Price (ETH)", "Final Price (ETH)", "Tokens Sold (millions)"} |->
        CASE c = "Initial Price (ETH)" -> ScaleOrZero(rec["Initial Price (wei)"], WEI_EXP)
          [] c = "Final Price (ETH)" -> ScaleOrZero(rec["Final Price (wei)"], WEI_EXP)
          [] c = "ETH Raised" -> ScaleOrZero(rec["ETH Raised"], WEI_EXP)
          [] c = "Tokens Sold (millions)" -> ScaleOrZero(rec["Tokens Sold"], MILLION_EXP)
          [] OTHER -> rec[c]]

\* create_summary_table(results)
CreateSummaryTable(res) ==
    [i \in 1..Len(res) |-> ConvertSummaryUnits(SummaryRecord(res[i]))]

\* variant: every purchase row gets the default display name
TagPurchaseDefaultName(purchase, name) ==
    [purchase_num |-> purchase.purchase_num, eth_spent |-> purchase.eth_spent,
     tokens_received |-> purchase.tokens_received,
     current_price |-> purchase.current_price, scenario |-> "Unnamed Scenario"]

\* purchase_data = purchase.copy(); purchase_data['scenario'] = result['scenario_name']
TagPurchase(purchase, name) ==
    [purchase_num |-> purchase.purchase_num, eth_spent |-> purchase.eth_spent,
     tokens_received |-> purchase.tokens_received,
     current_price |-> purchase.current_price, scenario |-> name]

RECURSIVE TagPurchases(_)
\* all_purchases: for result in results: for purchase in result['purchases']: ...
TagPurchases(res) ==
    IF res = <<>> THEN <<>>
    ELSE [k \in 1..Len(Head(res).purchases) |->
              TagPurchase(Head(res).purchases[k], Head(res).scenario_name)]
         \o TagPurchases(Tail(res))

\* the three converted columns added to the Purchase Table
ConvertPurchaseUnits(all_purchases) ==
    [i \in 1..Len(all_purchases) |->
        LET r == all_purchases[i]
        IN  [purchase_num |-> r.purchase_num, eth_spent |-> r.eth_spent,
             tokens_received |-> r.tokens_received, current_price |-> r.current_price,
             scenario |-> r.scenario,
             eth_spent_in_eth |-> Scale(r.eth_spent, WEI_EXP),
             tokens_in_millions |-> Scale(r.tokens_received, MILLION_EXP),
             price_in_eth |-> Scale(r.current_price, WEI_EXP)]]

\* create_purchase_dataframe(results); main builds the same table inline
CreatePurchaseDataframe(res) == ConvertPurchaseUnits(TagPurchases(res))

\* element of tokens_received / eth_spent on integer columns: IEEE division,
\* x/0 is inf, 0/0 is nan, nothing is raised
Divide(t, e) ==
    IF e # 0 THEN [kind |-> "ratio", num |-> t, den |-> e]
    ELSE IF t = 0 THEN [kind |-> "nan", num |-> t, den |-> e]
    ELSE [kind |-> "inf", num |-> t, den |-> e]

\* plot_tokens_per_eth: adds the column tokens_per_eth to the table it is given
PlotTokensPerEth(df) ==
    [i \in 1..Len(df) |->
        LET r == df[i]
        IN  [purchase_num |-> r.purchase_num, eth_spent |-> r.eth_spent,
             tokens_received |-> r.tokens_received, current_price |-> r.current_price,
             scenario |-> r.scenario, eth_spent_in_eth |-> r.eth_spent_in_eth,
             tokens_in_millions |-> r.tokens_in_millions,
             price_in_eth |-> r.price_in_eth,
             tokens_per_eth |-> Divide(r.tokens_received, r.eth_spent)]]

----------------------------------------------------------------------------
(* save_results *)

Artifacts == <<"scenario_summary.csv", "purchase_details.csv", "summary_report.md">>

\* where the body of the try block fails: 0 in os.makedirs, k while writing
\* Artifacts[k], Len(Artifacts) + 1 nowhere
FailurePoints == 0..(Len(Artifacts) + 1)

\* variant: no try/except around the export, the failure reaches the caller
SaveResultsUncaught(fail, tabulate) ==
    [called |-> TRUE,
     attempted |-> {Artifacts[k] : k \in {j \in 1..Len(Artifacts) : j <= fail}},
     written |-> {Artifacts[k] : k \in {j \in 1..Len(Artifacts) : j < fail}},
     reported |-> FALSE,
     raised |-> fail <= Len(Artifacts),
     plain_text |-> (~tabulate) /\ fail > Len(Artifacts)]

\* save_results with the first failure at `fail`; tabulate: to_markdown works
SaveResultsOutcome(fail, tabulate) ==
    [called |-> TRUE,
     attempted |-> {Artifacts[k] : k \in {j \in 1..Len(Artifacts) : j <= fail}},
     written |-> {Artifacts[k] : k \in {j \in 1..Len(Artifacts) : j < fail}},
     reported |-> fail <= Len(Artifacts),
     raised |-> FALSE,
     plain_text |-> (~tabulate) /\ fail > Len(Artifacts)]

----------------------------------------------------------------------------
(* run_scenario_tests and main *)

ScenarioSet ==
    { [has_name |-> TRUE, name |-> "Standard Sale (0.01% Reserve)"],
      [has_name |-> FALSE, name |-> ""] }

\* scenario.get('name', 'Unnamed Scenario')
ScenarioName(scenario) ==
    IF scenario.has_name THEN scenario.name ELSE "Unnamed Scenario"

\* what the harness may print for one scenario
HarnessOutputs ==
    { <<TextLine("Compiler run failed")>>,
      <<OpenLine, IntLine("Starting price", 100), IntLine("Total ETH raised", 50),
        CloseLine>>,
      PurchaseBlock(1, 0, 5, 100) \o PurchaseBlock(2, 4, 2, 300) \o
        <<OpenLine, IntLine("Starting price", 100), IntLine("Final price", 400),
          IntLine("Price increase (%)", 300), IntLine("Tokens sold in sale", 7),
          IntLine("Total ETH raised", 4), IntLine("Effective avg price per token", 50),
          CloseLine>>,
      PurchaseBlock(1, 2, 6, 10) \o <<BlankLine>> \o PurchaseBlock(1, 3, 6, 20) \o
        <<OpenLine, WordLine("Note"), IntLine("Starting price", 10),
          IntLine("Tokens sold in sale", 12), CloseLine>>,
      PurchaseBlock(1, 0, 0, 9) \o <<OpenLine, CloseLine>> }

ReturnCodes == {0, 1}

\* variant: a result with an empty purchase list is taken for a failed parse
AppendResultIfPurchases(res, data, name, out) ==
    IF data # None /\ data.purchases # <<>>
    THEN Append(res, [summary |-> data.summary, purchases |-> data.purchases,
                      scenario_name |-> name, full_output |-> out])
    ELSE res

\* if data: data['scenario_name'] = name; data['full_output'] = output; results.append(data)
AppendResult(res, data, name, out) ==
    IF data # None
    THEN Append(res, [summary |-> data.summary, purchases |-> data.purchases,
                      scenario_name |-> name, full_output |-> out])
    ELSE res

\* if not results: return
NoResults(res) == res = <<>>

\* variant: the check for purchase data is left out
NoPurchaseDataUnchecked(all_purchases) == FALSE

\* if not all_purchases: return
NoPurchaseData(all_purchases) == all_purchases = <<>>

RECURSIVE Batches(_)
Batches(n) ==
    IF n = 0 THEN {<<>>}
    ELSE Batches(n - 1) \cup
         {Append(b, s) : b \in {x \in Batches(n - 1) : Len(x) = n - 1}, s \in ScenarioSet}

Init ==
    /\ scenarios \in Batches(MaxScenarios)
    /\ output = <<>>
    /\ parsed = None
    /\ pc = "run"
    /\ runs = <<>>
    /\ results = <<>>
    /\ summary_df = NoDf
    /\ purchase_df = NoDf
    /\ saved = NotSaved

\* one turn of the loop of run_scenario_tests: run_forge_test, parse, append
RunScenario ==
    /\ pc = "run"
    /\ Len(runs) < Len(scenarios)
    /\ \E out \in HarnessOutputs, rc \in ReturnCodes :
          LET name == ScenarioName(scenarios[Len(runs) + 1])
              data == ParseTestOutput(Render(out))
          IN  /\ runs' = Append(runs, [name |-> name, returncode |-> rc, stdout |-> out])
              /\ output' = <<out>>
              /\ parsed' = data
              /\ results' = AppendResult(results, data, name, out)
    /\ UNCHANGED <<pc, scenarios, summary_df, purchase_df, saved>>

\* return results; main: if not results: return
CheckResults ==
    /\ pc = "run"
    /\ Len(runs) = Len(scenarios)
    /\ pc' = IF NoResults(results) THEN "exit_empty" ELSE "tables"
    /\ UNCHANGED <<output, parsed, scenarios, runs, results, summary_df, purchase_df, saved>>

\* main, lines 337-357: the summary table, then the purchase table or the return
CreateTables ==
    /\ pc = "tables"
    /\ summary_df' = CreateSummaryTable(results)
    /\ IF NoPurchaseData(TagPurchases(results))
       THEN /\ pc' = "exit_no_purchases"
            /\ purchase_df' = purchase_df
       ELSE /\ pc' = "plots"
            /\ purchase_df' = CreatePurchaseDataframe(results)
    /\ UNCHANGED <<output, parsed, scenarios, runs, results, saved>>

\* main, lines 360-363: if len(results) > 1: the three plots
Plots ==
    /\ pc = "plots"
    /\ purchase_df' = IF Len(results) > 1 THEN PlotTokensPerEth(purchase_df)
                      ELSE purchase_df
    /\ pc' = "save"
    /\ UNCHANGED <<output, parsed, scenarios, runs, results, summary_df, saved>>

\* analyzer.save_results(summary_df, purchase_df)
SaveResults ==
    /\ pc = "save"
    /\ \E fail \in FailurePoints, tabulate \in BOOLEAN :
          saved' = SaveResultsOutcome(fail, tabulate)
    /\ pc' = IF saved'.raised THEN "raised" ELSE "done"
    /\ UNCHANGED <<output, parsed, scenarios, runs, results, summary_df, purchase_df>>

Next == RunScenario \/ CheckResults \/ CreateTables \/ Plots \/ SaveResults

Spec == Init /\ [][Next]_vars

----------------------------------------------------------------------------
(* What a batch should give, read from the harness outputs line by line *)

RunParsed(r) == RefLocated(r.stdout)

\* the runs whose output holds a summary block, in declaration order
Kept == SelectSeq(runs, RunParsed)

RECURSIVE RefRows(_)
\* the complete purchase blocks of the kept runs, each with its scenario's name
RefRows(rs) ==
    IF rs = <<>> THEN <<>>
    ELSE LET ps == RefPurchases(Head(rs).stdout)
         IN  [k \in 1..Len(ps) |-> [scenario |-> Head(rs).name, purchase |-> ps[k]]]
             \o RefRows(Tail(rs))

TablesBuilt == pc \in {"exit_no_purchases", "plots", "save", "done"}
PurchaseTableBuilt == pc \in {"plots", "save", "done"}
Returned == pc \in {"exit_empty", "exit_no_purchases", "done"}

SummaryColumns ==
    {"Scenario", "Initial Price (wei)", "Final Price (wei)", "Price Increase (%)",
     "Tokens Sold", "ETH Raised", "Avg Price Per Token (wei)",
     "Initial Price (ETH)", "Final Price (ETH)", "Tokens Sold (millions)"}

\* the integer the parser extracted for a label of result i, zero when it has none
RawMetric(i, label) ==
    IF <<label>> \in DOMAIN results[i].summary THEN results[i].summary[<<label>>] ELSE 0

\* whether some line of a text carries the label
Mentions(lines, label) == \E k \in 1..Len(lines) : lines[k].label = label

(* C1: the collected results, and the rows of the Summary Table, are exactly
   the scenarios whose output parsed, one each, in declaration order; every
   scenario of the batch is run, whatever became of the ones before it. *)
C1_ResultsAreParsedScenariosInOrder ==
    /\ Len(runs) <= Len(scenarios)
    /\ pc # "run" => Len(runs) = Len(scenarios)
    /\ \A k \in 1..Len(runs) : runs[k].name = ScenarioName(scenarios[k])
    /\ LET kept == Kept
       IN  /\ Len(results) = Len(kept)
           /\ \A k \in 1..Len(results) :
                 /\ results[k].scenario_name = kept[k].name
                 /\ results[k].full_output = kept[k].stdout
           /\ TablesBuilt =>
                 /\ Len(summary_df) = Len(kept)
                 /\ \A k \in 1..Len(kept) :
                       summary_df[k]["Scenario"] = StrCell(kept[k].name)

\* a failed, unparseable first scenario, and the second one in the table
C1_Witness ==
    /\ TablesBuilt
    /\ Len(runs) = 2
    /\ runs[1].returncode # 0
    /\ ~RunParsed(runs[1])
    /\ RunParsed(runs[2])
    /\ Len(summary_df) = 1
    /\ summary_df[1]["Scenario"] = StrCell(runs[2].name)

(* C5 as stated: whenever at least one scenario parsed, a run that returns has
   called save_results. *)
C5_OnlyEmptyBatchStopsEarly ==
    (Returned /\ Kept # <<>>) => saved.called

(* C5, amended: main returns early in two cases, before any table when no
   scenario parsed, and after the summary table but before the purchase table
   and save_results when no parsed scenario has a purchase; save_results is
   called only when some parsed scenario has a purchase. *)
C5_EarlyReturnCases ==
    LET kept == Kept
        rows == RefRows(kept)
    IN  /\ pc = "exit_empty" => (kept = <<>> /\ summary_df = NoDf /\ ~saved.called)
        /\ pc = "exit_no_purchases" =>
              /\ kept # <<>>
              /\ rows = <<>>
              /\ summary_df # NoDf
              /\ purchase_df = NoDf
              /\ ~saved.called
        /\ (PurchaseTableBuilt \/ saved.called) => rows # <<>>
        /\ pc = "done" => saved.called

\* a parsed scenario without purchases: the run ends with a summary table and no report
C5_Witness ==
    /\ pc = "exit_no_purchases"
    /\ Len(results) >= 1
    /\ Len(summary_df) >= 1
    /\ ~saved.called

(* C6: every row of the Summary Table has the same fixed columns, whatever
   labels the scenario's summary holds; a metric whose label the summary lacks
   is zero in the row, and a label the text never mentions is not in the
   parser's mapping: the zero comes from the table's construction. *)
C6_SummaryTableRectangular ==
    TablesBuilt =>
        \A i \in 1..Len(summary_df) :
            /\ DOMAIN summary_df[i] = SummaryColumns
            /\ \A k \in 1..Len(SummaryFields) :
                  /\ ~Mentions(results[i].full_output, SummaryFields[k][2]) =>
                        <<SummaryFields[k][2]>> \notin DOMAIN results[i].summary
                  /\ <<SummaryFields[k][2]>> \notin DOMAIN results[i].summary =>
                        summary_df[i][SummaryFields[k][1]] = IntCell(0)
            /\ <<"Starting price">> \notin DOMAIN results[i].summary =>
                  summary_df[i]["Initial Price (ETH)"] = IntCell(0)
            /\ <<"Final price">> \notin DOMAIN results[i].summary =>
                  summary_df[i]["Final Price (ETH)"] = IntCell(0)
            /\ <<"Tokens sold in sale">> \notin DOMAIN results[i].summary =>
                  summary_df[i]["Tokens Sold (millions)"] = IntCell(0)

\* two rows, a metric present in one scenario and defaulted in the other
C6_Witness ==
    /\ TablesBuilt
    /\ Len(summary_df) = 2
    /\ <<"Final price">> \in DOMAIN results[1].summary
    /\ <<"Final price">> \notin DOMAIN results[2].summary
    /\ summary_df[1]["Final Price (wei)"] # IntCell(0)
    /\ summary_df[2]["Final Price (wei)"] = IntCell(0)

(* C7 as stated: after save_results every artifact has been attempted, failure
   or not, and no exception reached the caller. *)
C7_SiblingsStillAttempted ==
    saved.called => (saved.attempted = {Artifacts[k] : k \in 1..Len(Artifacts)}
                     /\ ~saved.raised)

(* C7, amended: a failure while writing an artifact is caught and reported and
   no exception reaches the caller, but one handler covers the whole export:
   the artifacts before the failing one are written and those after it are not
   attempted. *)
C7_FailureCaughtRestSkipped ==
    saved.called =>
        /\ ~saved.raised
        /\ pc = "done"
        /\ saved.written \subseteq saved.attempted
        /\ saved.reported <=> saved.written # {Artifacts[k] : k \in 1..Len(Artifacts)}
        /\ \A k \in 1..Len(Artifacts) :
              Artifacts[k] \notin saved.written =>
                 \A j \in (k + 1)..Len(Artifacts) : Artifacts[j] \notin saved.attempted
        /\ \A k \in 1..Len(Artifacts) :
              Artifacts[k] \in saved.attempted =>
                 \A j \in 1..(k - 1) : Artifacts[j] \in saved.written

\* the summary file failed: reported, and the two other artifacts never tried
C7_Witness ==
    /\ pc = "done"
    /\ saved.reported
    /\ saved.attempted = {Artifacts[1]}
    /\ saved.written = {}

(* C8 as stated: after conversion the raw columns Initial Price (wei), Final
   Price (wei), Tokens Sold, ETH Raised, eth_spent, tokens_received and
   current_price still hold the integer the parser extracted (or zero). *)
C8_RawColumnsKept ==
    /\ TablesBuilt =>
          \A i \in 1..Len(summary_df) :
              \A k \in {1, 2, 4, 5} :
                  summary_df[i][SummaryFields[k][1]] =
                      IntCell(RawMetric(i, SummaryFields[k][2]))
    /\ PurchaseTableBuilt =>
          LET rows == RefRows(Kept)
          IN  /\ Len(purchase_df) = Len(rows)
              /\ \A i \in 1..Len(purchase_df) :
                    /\ purchase_df[i].eth_spent = rows[i].purchase.eth_spent
                    /\ purchase_df[i].tokens_received = rows[i].purchase.tokens_received
                    /\ purchase_df[i].current_price = rows[i].purchase.current_price

(* C8, amended: conversion adds new columns for Initial Price, Final Price and
   Tokens Sold and for the three purchase columns and keeps those raw columns;
   'ETH Raised' is converted in place and holds the raw integer divided by
   10^18 (zero stays zero). *)
C8_RawColumnsKeptButEthRaised ==
    /\ TablesBuilt =>
          \A i \in 1..Len(summary_df) :
              /\ \A k \in {1, 2, 4} :
                    summary_df[i][SummaryFields[k][1]] =
                        IntCell(RawMetric(i, SummaryFields[k][2]))
              /\ summary_df[i]["ETH Raised"] =
                    IF RawMetric(i, "Total ETH raised") # 0
                    THEN [num |-> RawMetric(i, "Total ETH raised"), exp |-> 18]
                    ELSE IntCell(0)
              /\ summary_df[i]["Tokens Sold (millions)"] =
                    IF RawMetric(i, "Tokens sold in sale") # 0
                    THEN [num |-> RawMetric(i, "Tokens sold in sale"), exp |-> 6]
                    ELSE IntCell(0)
    /\ PurchaseTableBuilt =>
          LET rows == RefRows(Kept)
          IN  /\ Len(purchase_df) = Len(rows)
              /\ \A i \in 1..Len(purchase_df) :
                    /\ purchase_df[i].eth_spent = rows[i].purchase.eth_spent
                    /\ purchase_df[i].tokens_received = rows[i].purchase.tokens_received
                    /\ purchase_df[i].current_price = rows[i].purchase.current_price
                    /\ purchase_df[i].eth_spent_in_eth =
                           [num |-> rows[i].purchase.eth_spent, exp |-> 18]

\* both tables built, with a scenario that raised ETH and sold tokens
C8_Witness ==
    /\ PurchaseTableBuilt
    /\ \E i \in 1..Len(summary_df) :
          /\ RawMetric(i, "Total ETH raised") # 0
          /\ RawMetric(i, "Tokens sold in sale") # 0
          /\ summary_df[i]["Tokens Sold"] # IntCell(0)

(* C9: where tokens_per_eth is computed, a row with eth_spent = 0 gets the
   not-a-number sentinel, the other rows get their ratio, and the run goes on
   to save_results. *)
C9_ZeroEthGivesNaN ==
    \A i \in 1..Len(purchase_df) :
        "tokens_per_eth" \in DOMAIN purchase_df[i] =>
            /\ pc \in {"save", "done"}
            /\ purchase_df[i].eth_spent = 0 => purchase_df[i].tokens_per_eth.kind = "nan"
            /\ purchase_df[i].eth_spent # 0 => purchase_df[i].tokens_per_eth.kind = "ratio"

RowKeys == {<<purchase_df[i].scenario, purchase_df[i].purchase_num>> :
               i \in 1..Len(purchase_df)}

\* every row is a complete block of a kept run, under that run's name, in order
RowsTagged ==
    LET rows == RefRows(Kept)
    IN  /\ Len(purchase_df) = Len(rows)
        /\ \A i \in 1..Len(purchase_df) :
              /\ purchase_df[i].scenario = rows[i].scenario
              /\ purchase_df[i].purchase_num = rows[i].purchase.purchase_num
              /\ purchase_df[i].eth_spent = rows[i].purchase.eth_spent
              /\ \E k \in 1..Len(summary_df) :
                    summary_df[k]["Scenario"] = StrCell(purchase_df[i].scenario)

\* display names differ between kept runs, purchase numbers within each output
InputKeysUnique ==
    /\ \A a, b \in 1..Len(Kept) : Kept[a].name = Kept[b].name => a = b
    /\ \A a \in 1..Len(Kept) :
          LET ps == RefPurchases(Kept[a].stdout)
          IN  \A x, y \in 1..Len(ps) : ps[x].purchase_num = ps[y].purchase_num => x = y

(* C10 as stated: every purchase row carries the name of the scenario it came
   from, which labels a Summary Table row; rows keep parse order; and the table
   has one row per (scenario label, purchase_num) pair. *)
C10_OneRowPerScenarioPurchase ==
    PurchaseTableBuilt => (RowsTagged /\ Cardinality(RowKeys) = Len(purchase_df))

(* C10, amended: every purchase row carries the name of the scenario it came
   from, which labels a Summary Table row; rows keep parse order; the table has
   one row per extracted purchase record, and these are one per (scenario
   label, purchase_num) pair when display names are distinct and no output
   repeats a purchase number. *)
C10_RowsTaggedInOrder ==
    PurchaseTableBuilt =>
        /\ RowsTagged
        /\ InputKeysUnique => Cardinality(RowKeys) = Len(purchase_df)

\* rows of two scenarios with different names in one table
C10_Witness ==
    /\ PurchaseTableBuilt
    /\ Len(Kept) = 2
    /\ Kept[1].name # Kept[2].name
    /\ \E i, j \in 1..Len(purchase_df) :
          /\ i < j
          /\ purchase_df[i].scenario = Kept[1].name
          /\ purchase_df[j].scenario = Kept[2].name

====
